---- MODULE Spec2Model ----
(***************************************************************************)
(* Model of chumsky's text module (src/src/text.rs): the Character trait   *)
(* for u8 and char, and the parsers whitespace, padded, newline, digits,   *)
(* int, ident and keyword.  Characters are code points (naturals); a       *)
(* stream is the input sequence with an offset; a parser maps a stream to  *)
(* a PResult (success with an output, or failure with an error) together   *)
(* with the stream it leaves behind.                                       *)
(***************************************************************************)
EXTENDS Naturals, Sequences, FiniteSets

VARIABLES charTy, stream, call, start, res, iters

vars == <<charTy, stream, call, start, res, iters>>

\* ------------------------------------------------------------------ bounds
MaxLen == 3

\* ------------------------------------------------- Character (u8 / char)
CharTypes == {"u8", "char"}

\* u8::is_ascii_whitespace: space, tab, line feed, form feed, carriage return
is_ascii_whitespace(c) == c \in {32, 9, 10, 12, 13}

\* char::is_whitespace: the Unicode White_Space property
char_is_whitespace(c) ==
    \/ c \in 9..13
    \/ c \in {32, 133, 160, 5760, 8232, 8233, 8239, 8287, 12288}
    \/ c \in 8192..8202

is_whitespace(C, c) ==
    IF C = "u8" THEN is_ascii_whitespace(c) ELSE char_is_whitespace(c)

digit_zero(C) == 48

\* u8 -> char is the code point of the same value; char -> char is itself
to_char(C, c) == IF C = "u8" THEN c % 256 ELSE c

\* what a call that may panic does: it returns a value, or it panics
Returned(v) == [panic |-> FALSE, value |-> v]

Panicked == [panic |-> TRUE, value |-> FALSE]

\* the radixes char::to_digit accepts; any other radix makes it panic
MinRadix == 2

MaxRadix == 36

\* char::to_digit: panics on a radix outside MinRadix..MaxRadix; otherwise
\* '0'..'9' are 0..9, letters of either case are 10..35, and the digit is
\* Some only when it is below the radix
to_digit(c, radix) ==
    IF radix \notin MinRadix..MaxRadix THEN Panicked
    ELSE LET d == IF c \in 48..57 THEN <<c - 48>>
                  ELSE IF c \in 97..122 THEN <<c - 97 + 10>>
                  ELSE IF c \in 65..90 THEN <<c - 65 + 10>>
                  ELSE <<>>
         IN Returned(IF d # <<>> /\ d[1] < radix THEN d ELSE <<>>)

\* char::is_digit(radix) is to_digit(radix).is_some(), with to_digit's panic
char_is_digit(c, radix) ==
    LET d == to_digit(c, radix) IN
    IF d.panic THEN Panicked ELSE Returned(d.value # <<>>)

is_digit(C, c, radix) ==
    IF C = "u8" THEN char_is_digit(to_char(C, c), radix) ELSE char_is_digit(c, radix)

\* a && b, where a may have panicked
and_also(a, b) == IF a.panic THEN a ELSE Returned(a.value /\ b)

is_ascii_alphabetic(c) == c \in 65..90 \/ c \in 97..122

is_ascii_alphanumeric(c) == is_ascii_alphabetic(c) \/ c \in 48..57

\* ------------------------------------------------------------- the stream
save(s) == s.offset

revert(s, state) == [s EXCEPT !.offset = state]

\* consume-next: the next unit (as an option) and the stream after it; at the
\* end of input nothing is consumed
next(s) ==
    IF s.offset < Len(s.src)
    THEN [tok |-> <<s.src[s.offset + 1]>>, stream |-> [s EXCEPT !.offset = @ + 1]]
    ELSE [tok |-> <<>>, stream |-> s]

\* ------------------------------------------------------------ the results
POk(out, s) ==
    [ok |-> TRUE, panic |-> FALSE, out |-> out, err |-> <<>>, stream |-> s]

PErr(e, s) ==
    [ok |-> FALSE, panic |-> FALSE, out |-> <<>>, err |-> <<e>>, stream |-> s]

\* a panic inside a parser: no result is returned, the call unwinds and the
\* stream stays where it was when the panic happened
PPanic(s) ==
    [ok |-> FALSE, panic |-> TRUE, out |-> <<>>, err |-> <<>>, stream |-> s]

\* Error::expected_input_found(span, expected, found)
expected_input_found(span, expected, found) ==
    [span |-> span, expected |-> expected, found |-> found]

\* ------------------------------------------- the engine's generic parsers
\* A parser is a function from the stream it starts on to its PResult.
Streams == [src : Seq(Nat), offset : Nat]

\* accept the next unit only if the predicate f holds; nothing is consumed
\* on failure; a panic of the predicate unwinds after the unit was taken
filter(f) ==
    [s \in Streams |->
        LET n == next(s) IN
        IF n.tok # <<>> /\ f[n.tok[1]].panic
        THEN PPanic(n.stream)
        ELSE IF n.tok # <<>> /\ f[n.tok[1]].value
        THEN POk(n.tok[1], n.stream)
        ELSE PErr(expected_input_found(<<s.offset, n.stream.offset>>, {}, n.tok), s)]

\* succeed iff the next unit equals c; nothing is consumed on failure
just(c) ==
    [s \in Streams |->
        LET n == next(s) IN
        IF n.tok = <<c>>
        THEN POk(c, n.stream)
        ELSE PErr(expected_input_found(<<s.offset, n.stream.offset>>, {c}, n.tok), s)]

\* transform a successful output with the function f
map(a, f) ==
    [s \in Streams |-> LET ra == a[s] IN IF ra.ok THEN POk(f[ra.out], ra.stream) ELSE ra]

ignored(a) ==
    [s \in Streams |-> LET ra == a[s] IN IF ra.ok THEN POk(<<>>, ra.stream) ELSE ra]

\* run a then b, keeping b's output; a failure is returned where it happened
ignore_then(a, b) ==
    [s \in Streams |-> LET ra == a[s] IN IF ~ra.ok THEN ra ELSE b[ra.stream]]

\* run a then b, keeping a's output; a failure is returned where it happened
then_ignore(a, b) ==
    [s \in Streams |->
        LET ra == a[s] IN
        IF ~ra.ok THEN ra
        ELSE LET rb == b[ra.stream] IN IF rb.ok THEN POk(ra.out, rb.stream) ELSE rb]

\* run a then b and concatenate their outputs
chain(a, b) ==
    [s \in Streams |->
        LET ra == a[s] IN
        IF ~ra.ok THEN ra
        ELSE LET rb == b[ra.stream]
             IN IF rb.ok THEN POk(ra.out \o rb.out, rb.stream) ELSE rb]

\* ordered alternation: try a; when it fails, go back to where it started
\* and try b
or(a, b) ==
    [s \in Streams |->
        LET pre_state == save(s)
            ra == a[s]
        IN IF ra.ok \/ ra.panic THEN ra ELSE b[revert(ra.stream, pre_state)]]

\* optional: a's output as Some, or None with nothing consumed
or_not(a) ==
    [s \in Streams |->
        LET ra == a[s] IN
        IF ra.panic THEN ra
        ELSE IF ra.ok THEN POk(<<ra.out>>, ra.stream) ELSE POk(<<>>, s)]

\* repetition: run a until it fails, collecting the outputs; the failing
\* attempt consumes nothing; fewer than at_least outputs is a failure that
\* consumes nothing; a panic of a unwinds through the repetition
repeated(a, at_least) ==
    [s \in Streams |->
        LET run[n \in Nat] ==
                IF n = 0
                THEN [outs |-> <<>>, stream |-> s, stop |-> FALSE, last |-> POk(<<>>, s)]
                ELSE LET prev == run[n - 1]
                         r == a[prev.stream]
                     IN IF prev.stop THEN prev
                        ELSE IF ~r.ok
                        THEN [prev EXCEPT !.stop = TRUE, !.last = r]
                        ELSE [outs |-> Append(prev.outs, r.out), stream |-> r.stream,
                              stop |-> FALSE, last |-> r]
            end == run[Len(s.src) - s.offset + 1]
        IN IF end.last.panic THEN end.last
           ELSE IF Len(end.outs) >= at_least
           THEN POk(end.outs, end.stream)
           ELSE PErr(end.last.err[1], s)]

\* fold the collected units into the character type's collection
collect(a) == [s \in Streams |-> a[s]]

\* fallible mapping: f gets the output and its span and answers with a value
\* or an error; the stream stays where a left it
try_map(a, f) ==
    [s \in Streams |->
        LET ra == a[s] IN
        IF ~ra.ok THEN ra
        ELSE LET v == f[<<ra.out, <<s.offset, ra.stream.offset>>>>]
             IN IF v.ok THEN POk(v.out, ra.stream) ELSE PErr(v.err[1], ra.stream)]

\* low-level construction: the parser is the function itself
custom(f) == [s \in Streams |-> f[s]]

\* Option::Some and iter::once(c).collect()
Some == [c \in Nat |-> <<c>>]

once == [c \in Nat |-> <<c>>]

\* ------------------------------------------------------ src/src/text.rs
\* variant: the unit that ends the run is not given back
RECURSIVE whitespace_loop_norevert(_, _, _)
whitespace_loop_norevert(C, s, n) ==
    LET nx == next(s)
    IN IF nx.tok = <<>> \/ ~is_whitespace(C, nx.tok[1])
       THEN [stream |-> nx.stream, iters |-> n + 1]
       ELSE whitespace_loop_norevert(C, nx.stream, n + 1)

\* the loop of whitespace(): checkpoint, take one unit, and go back and stop
\* when there is none or it is not whitespace
RECURSIVE whitespace_loop(_, _, _)
whitespace_loop(C, s, n) ==
    LET state == save(s)
        nx == next(s)
    IN IF nx.tok = <<>> \/ ~is_whitespace(C, nx.tok[1])
       THEN [stream |-> revert(nx.stream, state), iters |-> n + 1]
       ELSE whitespace_loop(C, nx.stream, n + 1)

whitespace(C) ==
    custom([s \in Streams |-> POk(<<>>, whitespace_loop(C, s, 0).stream)])

\* variant: the bare carriage return is tried before CR LF
newline_cr_first ==
    ignored(
        or(or(or(or(or(or(just(13),
                          just(11)),
                       just(12)),
                    ignore_then(or_not(just(13)), just(10))),
                 just(133)),
              just(8232)),
           just(8233)))

newline ==
    ignored(
        or(or(or(or(or(or(ignore_then(or_not(just(13)), just(10)),
                          just(11)),
                       just(12)),
                    just(13)),
                 just(133)),
              just(8232)),
           just(8233)))

digits(C, radix) ==
    collect(repeated(filter([c \in Nat |-> is_digit(C, c, radix)]), 1))

\* variant: no branch for the single zero
int_nozero(C, radix) ==
    collect(chain(map(filter([c \in Nat |-> and_also(is_digit(C, c, radix), c # digit_zero(C))]),
                      Some),
                  repeated(filter([c \in Nat |-> is_digit(C, c, radix)]), 0)))

\* variant: the first digit may be zero
int_anylead(C, radix) ==
    or(collect(chain(map(filter([c \in Nat |-> is_digit(C, c, radix)]), Some),
                     repeated(filter([c \in Nat |-> is_digit(C, c, radix)]), 0))),
       map(just(digit_zero(C)), once))

\* variant: take a digit run first and check its leading zero afterwards
int_validate(C, radix) ==
    try_map(digits(C, radix),
            [x \in Seq(Nat) \X (Nat \X Nat) |->
                IF x[1][1] # digit_zero(C) \/ Len(x[1]) = 1
                THEN [ok |-> TRUE, out |-> x[1], err |-> <<>>]
                ELSE [ok |-> FALSE, out |-> <<>>,
                      err |-> <<expected_input_found(x[2], {}, <<>>)>>]])

int(C, radix) ==
    or(collect(chain(map(filter([c \in Nat |-> and_also(is_digit(C, c, radix), c # digit_zero(C))]),
                         Some),
                     repeated(filter([c \in Nat |-> is_digit(C, c, radix)]), 0))),
       map(just(digit_zero(C)), once))

\* variant: digits are not accepted after the first character
ident_alpha_tail(C) ==
    collect(chain(map(filter([c \in Nat |-> Returned(is_ascii_alphabetic(to_char(C, c))
                                              \/ to_char(C, c) = 95)]),
                      Some),
                  repeated(filter([c \in Nat |-> Returned(is_ascii_alphabetic(to_char(C, c))
                                              \/ to_char(C, c) = 95)]),
                           0)))

ident(C) ==
    collect(chain(map(filter([c \in Nat |-> Returned(is_ascii_alphabetic(to_char(C, c))
                                              \/ to_char(C, c) = 95)]),
                      Some),
                  repeated(filter([c \in Nat |-> Returned(is_ascii_alphanumeric(to_char(C, c))
                                              \/ to_char(C, c) = 95)]),
                           0)))

\* variant: the keyword only has to be a prefix of the identifier
keyword_prefix(C, kw) ==
    try_map(ident(C),
            [x \in Seq(Nat) \X (Nat \X Nat) |->
                IF Len(x[1]) >= Len(kw) /\ SubSeq(x[1], 1, Len(kw)) = kw
                THEN [ok |-> TRUE, out |-> <<>>, err |-> <<>>]
                ELSE [ok |-> FALSE, out |-> <<>>,
                      err |-> <<expected_input_found(x[2], {}, <<>>)>>]])

\* variant: a mismatch gives the identifier back
keyword_revert(C, kw) ==
    [s \in Streams |->
        LET r == try_map(ident(C),
                    [x \in Seq(Nat) \X (Nat \X Nat) |->
                        IF x[1] = kw
                        THEN [ok |-> TRUE, out |-> <<>>, err |-> <<>>]
                        ELSE [ok |-> FALSE, out |-> <<>>,
                              err |-> <<expected_input_found(x[2], {}, <<>>)>>]])[s]
        IN IF r.ok THEN r ELSE [r EXCEPT !.stream = revert(r.stream, save(s))]]

\* the closure gets the collected identifier s = x[1] and its span = x[2]
keyword(C, kw) ==
    try_map(ident(C),
            [x \in Seq(Nat) \X (Nat \X Nat) |->
                IF x[1] = kw
                THEN [ok |-> TRUE, out |-> <<>>, err |-> <<>>]
                ELSE [ok |-> FALSE, out |-> <<>>,
                      err |-> <<expected_input_found(x[2], {}, <<>>)>>]])

\* variant: no whitespace is skipped before the inner parser
padded_nolead(C, self) ==
    then_ignore(self, whitespace(C))

\* variant: a failure of the inner parser gives the leading whitespace back
padded_revert(C, self) ==
    [s \in Streams |->
        LET r == then_ignore(ignore_then(whitespace(C), self), whitespace(C))[s]
        IN IF r.ok THEN r ELSE [r EXCEPT !.stream = revert(r.stream, save(s))]]

\* TextParser::padded
padded(C, self) ==
    then_ignore(ignore_then(whitespace(C), self), whitespace(C))

\* the parser a call names: one of the parsers above
parser_of(C, p) ==
    CASE p.parser = "whitespace" -> whitespace(C)
      [] p.parser = "newline" -> newline
      [] p.parser = "digits" -> digits(C, p.radix)
      [] p.parser = "int" -> int(C, p.radix)
      [] p.parser = "ident" -> ident(C)
      [] p.parser = "keyword" -> keyword(C, p.keyword)

\* ------------------------------------------------------ inputs and calls
Alphabet == {10, 13, 32, 48, 55, 100}

Examples ==
    { <<100, 101, 102>>,
      <<100, 101, 102, 40, 102, 111, 111, 44, 32, 98, 97, 114, 41>>,
      <<100, 101, 102, 105, 110, 101>>,
      <<32, 32, 100, 101, 102, 105, 110, 101, 32, 32>>,
      <<32, 100, 101, 102, 32>>,
      <<102, 102, 32>>,
      <<11>>, <<12>>, <<133>>, <<8232>>, <<8233>>, <<160, 100>>,
      <<13, 11>>, <<11, 100>>, <<32, 11, 55, 11>>, <<8232, 100, 8232>>,
      <<95, 100, 48>>, <<95>>, <<40, 100>>, <<100, 95, 40>>,
      <<70, 48>>, <<103>>, <<57, 97, 90>> }

Radixes == {1, 2, 10, 16, 37}

Keywords == { <<100>>, <<100, 55>>, <<100, 101, 102>> }

Strings(S, n) == UNION { [1..k -> S] : k \in 0..n }

Inputs(C) ==
    { w \in Strings(Alphabet, MaxLen) \cup Examples :
        C = "u8" => \A i \in 1..Len(w) : w[i] < 256 }

Call(padding, parser, radix, kw) ==
    [padded |-> padding, parser |-> parser, radix |-> radix, keyword |-> kw]

Calls(C) ==
    { Call(FALSE, "whitespace", 0, <<>>), Call(FALSE, "ident", 0, <<>>) }
    \cup { Call(FALSE, "newline", 0, <<>>) : x \in { c \in {C} : c = "char" } }
    \cup { Call(FALSE, "digits", r, <<>>) : r \in Radixes }
    \cup { Call(FALSE, "int", r, <<>>) : r \in Radixes }
    \cup { Call(FALSE, "keyword", 0, k) : k \in Keywords }

Outcome(r) == [ok |-> r.ok, panic |-> r.panic, out |-> r.out, err |-> r.err]

\* ------------------------------------------------------------ the machine
Init ==
    /\ charTy \in CharTypes
    /\ \E w \in Inputs(charTy) : stream = [src |-> w, offset |-> 0]
    /\ call = Call(FALSE, "none", 0, <<>>)
    /\ start = 0
    /\ res = Outcome(POk(<<>>, stream))
    /\ iters = 0

\* run the parser p (padded or not) on the stream where it stands; after a
\* panic the caller has unwound and runs nothing more
Run(p, r, n) ==
    /\ ~res.panic
    /\ call' = p
    /\ start' = stream.offset
    /\ res' = Outcome(r)
    /\ stream' = r.stream
    /\ iters' = n
    /\ UNCHANGED charTy

Whitespace ==
    Run(Call(FALSE, "whitespace", 0, <<>>), whitespace(charTy)[stream],
        whitespace_loop(charTy, stream, 0).iters)

Newline ==
    /\ charTy = "char"
    /\ Run(Call(FALSE, "newline", 0, <<>>), newline[stream], 0)

Digits ==
    \E r \in Radixes : Run(Call(FALSE, "digits", r, <<>>), digits(charTy, r)[stream], 0)

Integer ==
    \E r \in Radixes : Run(Call(FALSE, "int", r, <<>>), int(charTy, r)[stream], 0)

Ident ==
    Run(Call(FALSE, "ident", 0, <<>>), ident(charTy)[stream], 0)

Keyword ==
    \E k \in Keywords : Run(Call(FALSE, "keyword", 0, k), keyword(charTy, k)[stream], 0)

Padded ==
    \E p \in Calls(charTy) :
        Run([p EXCEPT !.padded = TRUE], padded(charTy, parser_of(charTy, p))[stream], 0)

Next ==
    \/ Whitespace
    \/ Newline
    \/ Digits
    \/ Integer
    \/ Ident
    \/ Keyword
    \/ Padded

Spec == Init /\ [][Next]_vars

\* ------------------------------------------------- notions the claims use
src == stream.src

\* the input a parser started on: what followed the start position
Rest == SubSeq(src, start + 1, Len(src))

Plain(name) == call.parser = name /\ ~call.padded

\* the end of the maximal run of units satisfying P that starts at offset i
RunEnd(P(_), w, i) ==
    CHOOSE j \in i..Len(w) :
        /\ \A k \in (i + 1)..j : P(w[k])
        /\ (j = Len(w) \/ ~P(w[j + 1]))

WsEnd == RunEnd(LAMBDA c: is_whitespace(charTy, c), src, start)

\* [a-zA-Z_] and [a-zA-Z0-9_]
IdentStart(c) == c \in 65..90 \/ c \in 97..122 \/ c = 95

IdentChar(c) == IdentStart(c) \/ c \in 48..57

\* an identifier starts at offset i of w
HasIdent(w, i) == i < Len(w) /\ IdentStart(w[i + 1])

\* the maximal identifier that starts at offset i of w
MaxIdent(w, i) == SubSeq(w, i + 1, RunEnd(IdentChar, w, i))

\* the parser returned a failure (a panic returns nothing)
Failed == ~res.ok /\ ~res.panic

\* the value of c as a digit, if it is one: 0-9, then letters of either case
DigitValue(c) ==
    IF c \in 48..57 THEN <<c - 48>>
    ELSE IF c \in 97..122 THEN <<c - 87>>
    ELSE IF c \in 65..90 THEN <<c - 55>>
    ELSE <<>>

\* c is a digit under the radix
DigitUnder(c, radix) == DigitValue(c) # <<>> /\ DigitValue(c)[1] < radix

AllDigits(w, radix) == \A k \in 1..Len(w) : DigitUnder(w[k], radix)

\* C1: whitespace() returns after one loop iteration per whitespace unit plus
\* the one that stops it, always succeeds without an error, and leaves the
\* stream exactly after the maximal whitespace run from the start position:
\* unchanged on empty input or a non-whitespace first unit, and never past
\* the first non-whitespace unit.
C1_WhitespaceMaximalRun ==
    Plain("whitespace") =>
        /\ res.ok /\ ~res.panic /\ res.err = <<>> /\ res.out = <<>>
        /\ stream.offset = WsEnd
        /\ iters = (stream.offset - start) + 1
        /\ iters <= Len(src) + 1
        /\ (start = Len(src) \/ ~is_whitespace(charTy, src[start + 1]))
              => stream.offset = start
        /\ stream.offset < Len(src) => ~is_whitespace(charTy, src[stream.offset + 1])

C1_Witness ==
    /\ Plain("whitespace")
    /\ stream.offset > start + 1
    /\ stream.offset < Len(src)

\* C2 (amended): for a radix from 2 to 36, on an input made only of digits
\* under the radix, int(radix) accepts and returns the whole input when it has
\* no leading zero or is exactly "0"; on an input with a leading zero and more
\* digits it does not fail: it succeeds on the single zero, returns "0" and
\* leaves the other digits unconsumed, so the full string is never returned as
\* one token.  For any other radix int(radix) panics on such an input.
C2_IntCanonical ==
    (Plain("int") /\ Len(Rest) >= 1 /\ AllDigits(Rest, call.radix)) =>
        IF call.radix \in 2..36
        THEN /\ (Rest[1] # 48 \/ Len(Rest) = 1)
                   => (res.ok /\ res.out = Rest /\ stream.offset = Len(src))
             /\ (Rest[1] = 48 /\ Len(Rest) > 1)
                   => /\ res.ok /\ res.out = <<48>>
                      /\ stream.offset = start + 1
                      /\ res.out # Rest /\ stream.offset # Len(src)
        ELSE res.panic /\ ~res.ok

\* C2 as stated: for every radix, an input of digits under it is accepted and
\* returned whole when it has no leading zero or is exactly "0", and makes
\* int(radix) fail when it has a leading zero and more digits
C2_Original ==
    (Plain("int") /\ Len(Rest) >= 1 /\ AllDigits(Rest, call.radix)) =>
        /\ (Rest[1] # 48 \/ Len(Rest) = 1) => (res.ok /\ res.out = Rest)
        /\ (Rest[1] = 48 /\ Len(Rest) > 1) => Failed

C2_Witness ==
    /\ Plain("int") /\ call.radix = 10
    /\ Rest = <<48, 48, 55>>

\* C3: whenever int(radix) succeeds, for either character type, its result is
\* non-empty, holds only digits under the radix, and starts with the zero
\* digit only if its length is one.
C3_IntResultShape ==
    (call.parser = "int" /\ res.ok) =>
        /\ Len(res.out) >= 1
        /\ AllDigits(res.out, call.radix)
        /\ res.out[1] = 48 => Len(res.out) = 1

C3_Witness ==
    /\ call.parser = "int" /\ res.ok
    /\ Len(res.out) >= 2
    /\ \E k \in 2..Len(res.out) : res.out[k] = 48

\* C4: keyword(k) succeeds iff the maximal identifier at the start position is
\* exactly k; on success it has consumed exactly that identifier and nothing
\* after it, and it never succeeds when k is a proper prefix of the identifier.
C4_KeywordExact ==
    Plain("keyword") =>
        /\ res.ok <=> (HasIdent(src, start) /\ MaxIdent(src, start) = call.keyword)
        /\ res.ok => (stream.offset = start + Len(call.keyword) /\ res.out = <<>>)
        /\ (HasIdent(src, start) /\ Len(MaxIdent(src, start)) > Len(call.keyword))
              => ~res.ok

C4_Witness ==
    /\ Plain("keyword") /\ res.ok
    /\ call.keyword = <<100, 101, 102>>
    /\ stream.offset = 3
    /\ Len(src) = 13

\* C5: when keyword(k) fails on an identifier different from k, the stream is
\* left after that whole identifier (no revert), and the error carries neither
\* an expected nor a found value.
C5_KeywordMismatchConsumes ==
    (Plain("keyword") /\ Failed /\ HasIdent(src, start)) =>
        /\ stream.offset = start + Len(MaxIdent(src, start))
        /\ stream.offset > start
        /\ Len(res.err) = 1
        /\ res.err[1].expected = {} /\ res.err[1].found = <<>>

C5_Witness ==
    /\ Plain("keyword") /\ Failed
    /\ call.keyword = <<100, 101, 102>>
    /\ src = <<100, 101, 102, 105, 110, 101>>
    /\ stream.offset = 6

\* C6: ident() succeeds iff the first unit is an ASCII letter or underscore; on
\* success it returns, in order, the maximal prefix matching
\* [a-zA-Z_][a-zA-Z0-9_]* (never empty) and has consumed exactly it; otherwise
\* it fails and has consumed nothing.
C6_IdentMaximal ==
    Plain("ident") =>
        /\ res.ok <=> HasIdent(src, start)
        /\ res.ok => /\ res.out = MaxIdent(src, start)
                     /\ Len(res.out) >= 1
                     /\ stream.offset = start + Len(res.out)
        /\ ~res.panic
        /\ ~res.ok => stream.offset = start

C6_Witness ==
    /\ Plain("ident") /\ res.ok
    /\ Len(res.out) >= 2
    /\ stream.offset < Len(src)

\* C7: newline() consumes exactly one line terminator: both units of CR LF,
\* one unit of LF, VT, FF, a CR not followed by LF, U+0085, U+2028, U+2029
\* (the first alternative that matches wins), and fails on anything else.
C7_NewlineTerminators ==
    Plain("newline") =>
        LET n == Len(Rest) IN
        IF n >= 2 /\ Rest[1] = 13 /\ Rest[2] = 10
        THEN res.ok /\ stream.offset = start + 2
        ELSE IF n >= 1 /\ Rest[1] \in {10, 11, 12, 13, 133, 8232, 8233}
        THEN res.ok /\ stream.offset = start + 1
        ELSE Failed

C7_Witness ==
    /\ Plain("newline") /\ res.ok
    /\ stream.offset = start + 2

\* the decompositions ws1 + s + ws2 of the input a padded parser started on:
\* s is Rest[i+1..j], with only whitespace before and after it
AllWs(w) == \A k \in 1..Len(w) : is_whitespace(charTy, w[k])

Splits ==
    { ij \in (0..Len(Rest)) \X (0..Len(Rest)) :
        /\ ij[1] <= ij[2]
        /\ AllWs(SubSeq(Rest, 1, ij[1]))
        /\ AllWs(SubSeq(Rest, ij[2] + 1, Len(Rest))) }

Alone(ij) ==
    parser_of(charTy, call)[[src |-> SubSeq(Rest, ij[1] + 1, ij[2]), offset |-> 0]]

\* C8 as stated: whenever the inner parser succeeds on s alone, padded
\* succeeds on ws1 + s + ws2 with the same result
C8_Original ==
    call.padded =>
        \A ij \in Splits :
            Alone(ij).ok => (res.ok /\ res.out = Alone(ij).out)

\* C8 (amended): for the text parsers as inner pattern, and s not beginning
\* with a whitespace character, whenever the inner parser succeeds on s alone,
\* padded succeeds on ws1 + s + ws2 with the same result.
C8_PaddedSameResult ==
    call.padded =>
        \A ij \in Splits :
            (/\ Alone(ij).ok
             /\ (ij[1] = ij[2] \/ ~is_whitespace(charTy, Rest[ij[1] + 1])))
                => (res.ok /\ res.out = Alone(ij).out)

C8_Witness ==
    /\ call.padded /\ res.ok
    /\ Len(res.out) >= 2
    /\ start = 0 /\ stream.offset = Len(src)
    /\ is_whitespace(charTy, src[1])
    /\ is_whitespace(charTy, src[Len(src)])

\* C9: whenever digits(radix) or int(radix) returns a failure, the stream is
\* where it was before the parser started; whitespace, newline and ident leave
\* nothing consumed on failure either, so only keyword may.
C9_NoConsumptionOnFailure ==
    (~call.padded /\ call.parser \in {"digits", "int", "ident", "newline", "whitespace"}
       /\ Failed) => stream.offset = start

C9_Witness ==
    /\ Plain("digits") /\ call.radix = 10 /\ Failed
    /\ src = <<32, 32>>

\* C10: when the inner parser of padded fails, that failure is the failure of
\* padded, the leading whitespace stays consumed (the stream is never before
\* the end of the leading whitespace run) and the trailing skip is not run:
\* the stream is where the inner parser left it.
C10_PaddedFailure ==
    (call.padded /\ Failed) =>
        LET inner == parser_of(charTy, call)[[src |-> src, offset |-> WsEnd]] IN
        /\ ~inner.ok /\ ~inner.panic
        /\ res = Outcome(inner)
        /\ stream.offset = inner.stream.offset
        /\ stream.offset >= WsEnd

C10_Witness ==
    /\ call.padded /\ Failed
    /\ WsEnd > start
    /\ stream.offset > WsEnd
    /\ stream.offset < Len(src)
    /\ is_whitespace(charTy, src[stream.offset + 1])

====
